---------------------------- MODULE Spec2Model ----------------------------
(***************************************************************************)
(* Model of astrbot_plugin_life_scheduler (src/main.py): the day-keyed     *)
(* schedule cache, its lazy / cron / command generation paths, the two     *)
(* asyncio locks, the scheduler object and the temp-file-then-rename       *)
(* persistence of data.json and config.json.                               *)
(*                                                                         *)
(* One asyncio event loop runs every handler: an action is the code a task *)
(* runs between two awaits.  File operations run in aiofiles' thread pool: *)
(* their effect is applied in the step that resumes the awaiting task,     *)
(* except for the flush at close, which is a step of its own before the    *)
(* synchronous os.remove / os.replace that follows it.                     *)
(***************************************************************************)
EXTENDS Integers, Sequences, FiniteSets, TLC

(* ------------------------------ bounds --------------------------------- *)
\* Calendar days the history context is assembled over.
HistDays == 4
\* Largest reference_history_days the history context is assembled with.
MaxWindow == 3
\* Longest text extract_json_from_text is given, in characters.
MaxText == 7
\* Calls of update_schedule_time made on the schedulers taken on their own.
MaxUpdates == 3
\* Calendar days the clock runs through.
MaxDay == 2
\* Handlers (lazy triggers, cron fires, commands) started in one behaviour.
MaxOps == 3

(* ------------------------------ tasks ---------------------------------- *)
\* Concurrent on_llm_request handlers.
Lazy == {"l1", "l2"}
\* The APScheduler job instance running daily_schedule_task.
Cron == {"cron"}
\* Concurrent life_command handlers.
Cmd == {"u1", "u2"}
Procs == Lazy \cup Cron \cup Cmd
NoProc == "none"

(* ------------------------------ values --------------------------------- *)
Days == 1..MaxDay
\* Python's None for an Optional[dict]; a record is <<outfit, schedule>>.
None == <<>>
\* completion_text values the provider may return.
Contents == {"json_a", "no_json"}
\* extract_json_from_text on the modelled completion texts.
extract_json_from_text(content) ==
    IF content = "json_a" THEN <<"outfit_a", "schedule_a">> ELSE None
\* The fallback record of generate_schedule_with_llm.
FallbackRecord(content) == <<"casual", content>>
\* What generate_schedule_with_llm returns for a completion text.
RecordOfContent(content) ==
    IF extract_json_from_text(content) # None
    THEN extract_json_from_text(content)
    ELSE FallbackRecord(content)
EmptyStore == [d \in Days |-> None]

(* ------------------------------ times ---------------------------------- *)
Digits == {"0", "1", "2", "3", "4", "5", "6", "7", "8", "9"}
DigitVal(ch) ==
    CASE ch = "0" -> 0 [] ch = "1" -> 1 [] ch = "2" -> 2 [] ch = "3" -> 3
      [] ch = "4" -> 4 [] ch = "5" -> 5 [] ch = "6" -> 6 [] ch = "7" -> 7
      [] ch = "8" -> 8 [] OTHER -> 9
\* SchedulerConfig.schedule_time default "07:00", as a character sequence.
DefaultTime == <<"0", "7", ":", "0", "0">>
\* The param values the time command is tried with:
\* "", "07:00", "08:30", "24:00", "7:00".
Params == { <<>>,
            DefaultTime,
            <<"0", "8", ":", "3", "0">>,
            <<"2", "4", ":", "0", "0">>,
            <<"7", ":", "0", "0">> }
\* re.match(r"^\d{2}:\d{2}$", param)
MatchesTimePattern(s) ==
    /\ Len(s) = 5
    /\ s[1] \in Digits /\ s[2] \in Digits
    /\ s[3] = ":"
    /\ s[4] \in Digits /\ s[5] \in Digits
\* new_time.split(":") unpacks into exactly two parts.
SplitsInTwo(s) == Cardinality({i \in 1..Len(s) : s[i] = ":"}) = 1
ColonAt(s) == CHOOSE i \in 1..Len(s) : s[i] = ":"
RECURSIVE IntOf(_)
IntOf(s) == IF s = <<>> THEN 0
            ELSE 10 * IntOf(SubSeq(s, 1, Len(s) - 1)) + DigitVal(s[Len(s)])
AllDigits(s) == s # <<>> /\ \A i \in 1..Len(s) : s[i] \in Digits
HourPart(s) == SubSeq(s, 1, ColonAt(s) - 1)
MinutePart(s) == SubSeq(s, ColonAt(s) + 1, Len(s))
\* CronTrigger(hour=..., minute=...) accepts the fields (else ValueError).
CronAccepts(s) ==
    /\ AllDigits(HourPart(s)) /\ AllDigits(MinutePart(s))
    /\ IntOf(HourPart(s)) \in 0..23
    /\ IntOf(MinutePart(s)) \in 0..59
\* The trigger a job gets: <<hour, minute>>; <<>> stands for no job.
TriggerOf(s) == <<IntOf(HourPart(s)), IntOf(MinutePart(s))>>
NoJob == <<>>

(* ------------------------------ files ---------------------------------- *)
\* A path holds no file, a file still being written, or a complete snapshot.
MissingData == [state |-> "missing", content |-> EmptyStore]
PartialData == [state |-> "partial", content |-> EmptyStore]
DataSnapshot(store) == [state |-> "ok", content |-> store]
MissingCfg == [state |-> "missing", content |-> <<>>]
PartialCfg == [state |-> "partial", content |-> <<>>]
CfgSnapshot(t) == [state |-> "ok", content |-> t]

(* ------------------------------ locks ---------------------------------- *)
\* asyncio.Lock: free, or held, with a FIFO of waiters; a release hands the
\* lock to the first waiter, and nobody overtakes a waiter.
FreeLock == [holder |-> NoProc, waiters |-> <<>>]
CanAcquire(lock) == lock.holder = NoProc /\ lock.waiters = <<>>
Acquire(lock, p) ==
    IF CanAcquire(lock) THEN [lock EXCEPT !.holder = p]
    ELSE [lock EXCEPT !.waiters = Append(@, p)]
Release(lock) ==
    IF lock.waiters = <<>> THEN [lock EXCEPT !.holder = NoProc]
    ELSE [holder |-> Head(lock.waiters), waiters |-> Tail(lock.waiters)]

(* ----------------------------- scheduler -------------------------------- *)
\* LifeScheduler.__init__ followed by LifeScheduler.start(): a time that does
\* not unpack or that CronTrigger refuses leaves no job and a scheduler that
\* was never started.
StartedScheduler(t) ==
    IF SplitsInTwo(t) /\ CronAccepts(t)
    THEN [schedule_time |-> t, job |-> TriggerOf(t), running |-> TRUE]
    ELSE [schedule_time |-> t, job |-> NoJob, running |-> FALSE]

\* LifeScheduler.update_schedule_time(new_time).
update_schedule_time(s, new_time) ==
    IF new_time = s.schedule_time THEN s
    ELSE IF ~SplitsInTwo(new_time) THEN s
    ELSE IF s.job # NoJob /\ CronAccepts(new_time)
         THEN [s EXCEPT !.schedule_time = new_time, !.job = TriggerOf(new_time)]
         ELSE [s EXCEPT !.schedule_time = new_time]

(* ------------------------------- state ---------------------------------- *)
VARIABLES
    today,            \* the calendar day datetime.now() falls on
    os_name,          \* os.name as far as the run has depended on it: any, posix, nt
    schedule_data,    \* Main.schedule_data: day -> record or None (absent)
    failed_dates,     \* Main.failed_dates
    config_time,      \* Main.config.schedule_time
    scheduler,        \* Main.scheduler: schedule_time, job trigger, running
    generation_lock,  \* Main.generation_lock
    data_lock,        \* Main.data_lock
    data_file,        \* data.json
    data_tmp,         \* data.tmp
    cfg_file,         \* config.json
    cfg_tmp,          \* config.tmp
    pc,               \* where each handler is suspended
    action,           \* the handler a task runs: lazy, cron, show, regenerate, time
    today_str,        \* the handler's local today_str (0: not running)
    schedule_info,    \* the handler's local schedule_info / pending result
    data_buf,         \* json.dumps(self.schedule_data) held by an open data.tmp
    cfg_buf,          \* json.dumps(self.config.to_dict()) held by an open config.tmp
    fh,               \* the file a handler's open config.tmp handle now names
    param,            \* the time command's local param
    write_failed,     \* history: a write of save_config raised in this process
    reply,            \* the handler that returned in the step just taken, and its reply
    gen_exit,         \* the text_chat call that ended in the step just taken, and its clean-up
    ops,              \* history: handlers started
    shown,            \* history: <<day, record>> show last read from the cache, no regenerate since
    attempts,         \* history: generate_schedule_with_llm calls of the running handler
    date_str,         \* generate_schedule_with_llm's local date_str, as a day (0: not running)
    hist,             \* a history context being assembled, apart from the handlers
    scan,             \* a text being scanned by extract_json_from_text, apart from the handlers
    scheds            \* a LifeScheduler of each source file, apart from the handlers

\* What no generation or data-file step touches.
cfgSide == <<config_time, scheduler, cfg_file, cfg_tmp, cfg_buf, fh, param,
             write_failed>>
\* What no time-command or config-file step touches.
genSide == <<schedule_data, failed_dates, generation_lock, data_lock, data_file,
             data_tmp, today_str, schedule_info, data_buf, shown, attempts,
             date_str>>
vars == <<today, os_name, schedule_data, failed_dates, config_time, scheduler,
          generation_lock, data_lock, data_file, data_tmp, cfg_file, cfg_tmp,
          pc, action, today_str, schedule_info, data_buf, cfg_buf, fh, param,
          write_failed, reply, gen_exit, ops, shown, attempts, date_str,
          hist, scan, scheds>>

\* The state of the plugin.
program == <<today, os_name, schedule_data, failed_dates, config_time, scheduler,
             generation_lock, data_lock, data_file, data_tmp, cfg_file, cfg_tmp,
             pc, action, today_str, schedule_info, data_buf, cfg_buf, fh, param,
             write_failed, reply, gen_exit, ops, shown, attempts,
             date_str>>
\* The inputs and results of the functions that are exercised on their own.
pure == <<hist, scan, scheds>>

\* The values of hist, scan and scheds while the function is not exercised.
HistIdle == [store |-> {}, today |-> 0, days |-> 0, lines |-> <<>>,
             text |-> <<>>, built |-> FALSE]
ScanIdle == [text |-> <<>>, result |-> <<>>, scanned |-> FALSE]
SchedIdle == [main |-> <<>>, core |-> <<>>, updates |-> 0]

\* Nothing was handed back.
NoResult == <<>>
\* No handler returned in the step just taken.
NoReply == [task |-> NoProc, action |-> "none", day |-> 0, result |-> NoResult,
            calls |-> 0]
\* Handler p, running `act` for day d, returned `res` after n calls of
\* generate_schedule_with_llm.
Returned(p, act, d, res, n) ==
    [task |-> p, action |-> act, day |-> d, result |-> res, calls |-> n]
\* No text_chat call ended in the step just taken.
NoExit == [task |-> NoProc, call |-> "none", cleanup |-> "none"]
\* How the clean-up of the finally block (lines 407-416) can end.
CleanupOutcomes == {"done", "raise"}
\* The action of a task that runs no command.
RestingAction(p) == IF p \in Lazy THEN "lazy" ELSE IF p \in Cron THEN "cron" ELSE "none"

\* Main.load_data: a missing or unparsable data.json gives {}.
load_data(f) == IF f.state = "ok" THEN f.content ELSE EmptyStore
\* Main.load_config: a missing or unparsable config.json gives the defaults.
load_config(f) == IF f.state = "ok" THEN f.content ELSE DefaultTime

\* Main.__init__ on the files found on disk; nothing is running yet.
Constructed(df, cf) ==
    /\ schedule_data = load_data(df)
    /\ failed_dates = {}
    /\ config_time = load_config(cf)
    /\ scheduler = StartedScheduler(load_config(cf))
    /\ generation_lock = FreeLock
    /\ data_lock = FreeLock
    /\ pc = [p \in Procs |-> "idle"]
    /\ action = [p \in Procs |-> RestingAction(p)]
    /\ today_str = [p \in Procs |-> 0]
    /\ schedule_info = [p \in Procs |-> None]
    /\ data_buf = [p \in Procs |-> EmptyStore]
    /\ cfg_buf = [p \in Procs |-> <<>>]
    /\ fh = [p \in Procs |-> "closed"]
    /\ param = [p \in Procs |-> <<>>]
    /\ write_failed = FALSE
    /\ reply = NoReply
    /\ gen_exit = NoExit
    /\ shown = <<>>
    /\ attempts = [p \in Procs |-> 0]
    /\ date_str = [p \in Procs |-> 0]

\* First start of the plugin: no data.json and no config.json yet.
Installed ==
    /\ today = 1
    /\ os_name = "any"
    /\ data_file = MissingData /\ data_tmp = MissingData
    /\ cfg_file = MissingCfg /\ cfg_tmp = MissingCfg
    /\ ops = 0
    /\ Constructed(MissingData, MissingCfg)

\* First start of the plugin; none of the separately exercised functions is
\* given an input.
Init ==
    /\ Installed
    /\ hist = HistIdle /\ scan = ScanIdle /\ scheds = SchedIdle

(* --------------------------- handler pieces ----------------------------- *)
\* Handler slots of one kind are taken in order: the second runs a handler
\* only while the first is busy.
Earlier(p) == IF p = "l2" THEN {"l1"} ELSE IF p = "u2" THEN {"u1"} ELSE {}
SlotFree(p) == pc[p] = "idle" /\ \A q \in Earlier(p) : pc[q] # "idle"
CanStart(p) == SlotFree(p) /\ ops < MaxOps

\* on_llm_request's last block (lines 446-454): today's record, if any, is
\* injected into the system prompt.
InjectOf(store, d) == IF store[d] # None THEN <<"inject", store[d]>> ELSE NoResult
\* The command reply that shows a record (lines 473, 483, 495).
ScheduleReply(d, rec) == <<"schedule", d, rec>>
\* The command reply "生成失败" (lines 486, 498).
GenFailedReply == <<"gen_failed">>
\* No regenerate command is running.
NoRegenerate == \A q \in Cmd : action[q] # "regenerate"

\* The handler returns: its locals are gone, its reply is out.
Finish(p, rep) ==
    /\ pc' = [pc EXCEPT ![p] = "idle"]
    /\ action' = [action EXCEPT ![p] = RestingAction(p)]
    /\ today_str' = [today_str EXCEPT ![p] = 0]
    /\ schedule_info' = [schedule_info EXCEPT ![p] = None]
    /\ attempts' = [attempts EXCEPT ![p] = 0]
    /\ date_str' = [date_str EXCEPT ![p] = 0]
    /\ reply' = Returned(p, action[p], today_str[p], rep, attempts[p])

\* The handler stays suspended; nothing is handed back.
Suspend(p, at) ==
    /\ pc' = [pc EXCEPT ![p] = at]
    /\ reply' = NoReply
    /\ UNCHANGED <<action, today_str, attempts>>

\* A save_data that writes the store as it was before the caller's record
\* was stored.
EnterSaveStale(p, lock) ==
    /\ data_lock' = Acquire(lock, p)
    /\ date_str' = [date_str EXCEPT ![p] = 0]
    /\ IF CanAcquire(lock)
       THEN /\ data_tmp' = PartialData
            /\ data_buf' = [data_buf EXCEPT ![p] = schedule_data]
            /\ Suspend(p, "save_close")
       ELSE /\ Suspend(p, "save_wait")
            /\ UNCHANGED <<data_tmp, data_buf>>

\* save_data (lines 299-305) called with the data lock in state `lock`: it
\* takes the lock and opens data.tmp for writing, which empties the file, and
\* serialises the store; or it queues for the lock.
EnterSave(p, lock) ==
    /\ data_lock' = Acquire(lock, p)
    /\ date_str' = [date_str EXCEPT ![p] = 0]
    /\ IF CanAcquire(lock)
       THEN /\ data_tmp' = PartialData
            /\ data_buf' = [data_buf EXCEPT ![p] = schedule_data']
            /\ Suspend(p, "save_close")
       ELSE /\ Suspend(p, "save_wait")
            /\ UNCHANGED <<data_tmp, data_buf>>

\* `self.schedule_data[today_str] = schedule_info` under the data lock, its
\* release, and the call of save_data (lines 323-325, 439-441, 480-482,
\* 492-494).
StoreAndSave(p, rec) ==
    /\ schedule_data' = [schedule_data EXCEPT ![today_str[p]] = rec]
    /\ schedule_info' = [schedule_info EXCEPT ![p] = rec]
    /\ EnterSave(p, Release([data_lock EXCEPT !.holder = p]))
    /\ UNCHANGED <<failed_dates, generation_lock, shown>>

\* `async with self.data_lock:` reached with a record to store: the handler
\* stores and saves when the lock is free, and queues for it otherwise.
StoreOrWait(p, rec) ==
    IF CanAcquire(data_lock)
    THEN StoreAndSave(p, rec)
    ELSE /\ data_lock' = Acquire(data_lock, p)
         /\ schedule_info' = [schedule_info EXCEPT ![p] = rec]
         /\ date_str' = [date_str EXCEPT ![p] = 0]
         /\ Suspend(p, "store_wait")
         /\ UNCHANGED <<schedule_data, data_tmp, data_buf, failed_dates,
                        generation_lock, shown>>

\* What a failed generation leaves alone in every caller.
failFrame == <<schedule_data, data_lock, data_tmp, data_buf, shown>>

\* An on_llm_request that, when its generation failed, returns with the
\* generation lock still held.
LazyFailedKeepsLock(p) ==
    /\ failed_dates' = failed_dates \cup {today_str[p]}
    /\ UNCHANGED generation_lock
    /\ Finish(p, InjectOf(schedule_data, today_str[p]))
    /\ UNCHANGED failFrame

\* on_llm_request after a failed generation (lines 442-454).
LazyFailed(p) ==
    /\ failed_dates' = failed_dates \cup {today_str[p]}
    /\ generation_lock' = Release(generation_lock)
    /\ Finish(p, InjectOf(schedule_data, today_str[p]))
    /\ UNCHANGED failFrame

\* daily_schedule_task after a failed generation (lines 319-321).
CronFailed(p) ==
    /\ Finish(p, NoResult)
    /\ UNCHANGED <<failed_dates, generation_lock>>
    /\ UNCHANGED failFrame

\* life_command show after a failed generation (lines 485-486).
ShowFailed(p) ==
    /\ Finish(p, GenFailedReply)
    /\ UNCHANGED <<failed_dates, generation_lock>>
    /\ UNCHANGED failFrame

\* A regenerate that, when its generation failed, drops the day's record.
RegenerateFailedDrops(p) ==
    /\ Finish(p, GenFailedReply)
    /\ schedule_data' = [schedule_data EXCEPT ![today_str[p]] = None]
    /\ UNCHANGED <<failed_dates, generation_lock, data_lock, data_tmp,
                   data_buf, shown>>

\* life_command regenerate after a failed generation (lines 497-498).
RegenerateFailed(p) ==
    /\ Finish(p, GenFailedReply)
    /\ UNCHANGED <<failed_dates, generation_lock>>
    /\ UNCHANGED failFrame

\* The caller's code after `await self.generate_schedule_with_llm()` returned
\* `result`, up to its next await.
AfterGenerate(p, result) ==
    IF result # None THEN StoreOrWait(p, result)
    ELSE CASE action[p] = "lazy" -> LazyFailed(p)
           [] action[p] = "cron" -> CronFailed(p)
           [] action[p] = "show" -> ShowFailed(p)
           [] OTHER -> RegenerateFailed(p)

\* The caller's code after `await self.save_data()` returned.
AfterSave(p) ==
    CASE action[p] = "lazy" ->
           /\ generation_lock' = Release(generation_lock)
           /\ Finish(p, InjectOf(schedule_data, today_str[p]))
           /\ UNCHANGED shown
      [] action[p] = "cron" ->
           /\ Finish(p, NoResult)
           /\ UNCHANGED <<generation_lock, shown>>
      [] OTHER ->
           /\ Finish(p, ScheduleReply(today_str[p], schedule_info[p]))
           /\ UNCHANGED <<generation_lock, shown>>

(* ------------------------- generation handlers -------------------------- *)
\* An on_llm_request that does not test the session id: the request of the
\* reserved session is handled as any request is.
ReservedRequestUnchecked(p) ==
    /\ p \in Lazy /\ CanStart(p)
    /\ gen_exit' = NoExit
    /\ UNCHANGED pure
    /\ ops' = ops + 1
    /\ IF schedule_data[today] = None /\ today \notin failed_dates
       THEN /\ generation_lock' = Acquire(generation_lock, p)
            /\ today_str' = [today_str EXCEPT ![p] = today]
            /\ reply' = NoReply
            /\ IF CanAcquire(generation_lock)
               THEN /\ pc' = [pc EXCEPT ![p] = "gen_ctx"]
                    /\ attempts' = [attempts EXCEPT ![p] = 1]
                    /\ date_str' = [date_str EXCEPT ![p] = today]
               ELSE /\ pc' = [pc EXCEPT ![p] = "gen_wait"]
                    /\ UNCHANGED <<attempts, date_str>>
       ELSE /\ reply' = Returned(p, "reserved", today,
                                  InjectOf(schedule_data, today), 0)
            /\ UNCHANGED <<generation_lock, today_str, pc, attempts,
                           date_str>>
    /\ UNCHANGED <<today, os_name, action, schedule_info, schedule_data,
                   failed_dates, data_lock, data_file, data_tmp, data_buf,
                   shown>>
    /\ UNCHANGED cfgSide

\* on_llm_request for a request whose session_id is "life_scheduler_gen", the
\* session generate_schedule_with_llm calls text_chat under (lines 394-396):
\* it returns at once (lines 426-427).
ReservedRequest(p) ==
    /\ p \in Lazy /\ CanStart(p)
    /\ gen_exit' = NoExit
    /\ UNCHANGED pure
    /\ ops' = ops + 1
    /\ reply' = Returned(p, "reserved", today, NoResult, 0)
    /\ UNCHANGED <<today, os_name, pc, action, today_str, schedule_info,
                   attempts, date_str, schedule_data, failed_dates, generation_lock,
                   data_lock, data_file, data_tmp, data_buf, shown>>
    /\ UNCHANGED cfgSide

\* on_llm_request for a request of any other session (lines 423-454) up to
\* its first await: the first check, the lock, the re-check, and the entry
\* into generate_schedule_with_llm.
LazyStart(p) ==
    /\ p \in Lazy /\ CanStart(p)
    /\ gen_exit' = NoExit
    /\ UNCHANGED pure
    /\ ops' = ops + 1
    /\ IF schedule_data[today] = None /\ today \notin failed_dates
       THEN /\ generation_lock' = Acquire(generation_lock, p)
            /\ today_str' = [today_str EXCEPT ![p] = today]
            /\ reply' = NoReply
            /\ IF CanAcquire(generation_lock)
               THEN /\ pc' = [pc EXCEPT ![p] = "gen_ctx"]
                    /\ attempts' = [attempts EXCEPT ![p] = 1]
                    /\ date_str' = [date_str EXCEPT ![p] = today]
               ELSE /\ pc' = [pc EXCEPT ![p] = "gen_wait"]
                    /\ UNCHANGED <<attempts, date_str>>
       ELSE /\ reply' = Returned(p, "lazy", today, InjectOf(schedule_data, today), 0)
            /\ UNCHANGED <<generation_lock, today_str, pc, attempts,
                           date_str>>
    /\ UNCHANGED <<today, os_name, action, schedule_info, schedule_data,
                   failed_dates, data_lock, data_file, data_tmp, data_buf,
                   shown>>
    /\ UNCHANGED cfgSide

\* on_llm_request resumed with the generation lock, without the re-check of
\* line 435.
LazyLockedNoRecheck(p) ==
    /\ pc[p] = "gen_wait" /\ generation_lock.holder = p
    /\ gen_exit' = NoExit
    /\ UNCHANGED pure
    /\ pc' = [pc EXCEPT ![p] = "gen_ctx"]
    /\ attempts' = [attempts EXCEPT ![p] = @ + 1]
    /\ date_str' = [date_str EXCEPT ![p] = today]
    /\ reply' = NoReply
    /\ UNCHANGED <<today, os_name, action, today_str, schedule_info,
                   schedule_data, failed_dates, generation_lock, data_lock,
                   data_file, data_tmp, data_buf, ops, shown>>
    /\ UNCHANGED cfgSide

\* on_llm_request resumed with the generation lock: the re-check (line 435),
\* then generate_schedule_with_llm or the injection.
LazyLocked(p) ==
    /\ pc[p] = "gen_wait" /\ generation_lock.holder = p
    /\ gen_exit' = NoExit
    /\ UNCHANGED pure
    /\ IF schedule_data[today_str[p]] = None /\ today_str[p] \notin failed_dates
       THEN /\ pc' = [pc EXCEPT ![p] = "gen_ctx"]
            /\ attempts' = [attempts EXCEPT ![p] = @ + 1]
            /\ date_str' = [date_str EXCEPT ![p] = today]
            /\ reply' = NoReply
            /\ UNCHANGED <<generation_lock, action, today_str, schedule_info>>
       ELSE /\ generation_lock' = Release(generation_lock)
            /\ Finish(p, InjectOf(schedule_data, today_str[p]))
    /\ UNCHANGED <<today, os_name, schedule_data, failed_dates, data_lock,
                   data_file, data_tmp, data_buf, ops, shown>>
    /\ UNCHANGED cfgSide

\* The scheduler's job fires daily_schedule_task (lines 313-318): no check, no
\* lock, straight into generate_schedule_with_llm.
CronFire(p) ==
    /\ p \in Cron /\ CanStart(p)
    /\ gen_exit' = NoExit
    /\ UNCHANGED pure
    /\ scheduler.running /\ scheduler.job # NoJob
    /\ ops' = ops + 1
    /\ today_str' = [today_str EXCEPT ![p] = today]
    /\ pc' = [pc EXCEPT ![p] = "gen_ctx"]
    /\ attempts' = [attempts EXCEPT ![p] = 1]
    /\ date_str' = [date_str EXCEPT ![p] = today]
    /\ reply' = NoReply
    /\ UNCHANGED <<today, os_name, action, schedule_info, schedule_data,
                   failed_dates, generation_lock, data_lock, data_file,
                   data_tmp, data_buf, shown>>
    /\ UNCHANGED cfgSide

\* life_command show (lines 469-477): answer from the cache, or announce the
\* generation (await send_message).
Show(p) ==
    /\ p \in Cmd /\ CanStart(p)
    /\ gen_exit' = NoExit
    /\ UNCHANGED pure
    /\ ops' = ops + 1
    /\ IF schedule_data[today] # None
       THEN /\ reply' = Returned(p, "show", today,
                                  ScheduleReply(today, schedule_data[today]), 0)
            /\ shown' = IF NoRegenerate
                        THEN <<today, schedule_data[today]>> ELSE shown
            /\ UNCHANGED <<pc, action, today_str>>
       ELSE /\ reply' = NoReply
            /\ pc' = [pc EXCEPT ![p] = "send_message"]
            /\ action' = [action EXCEPT ![p] = "show"]
            /\ today_str' = [today_str EXCEPT ![p] = today]
            /\ UNCHANGED shown
    /\ UNCHANGED <<today, os_name, schedule_info, attempts, date_str, schedule_data,
                   failed_dates, generation_lock, data_lock, data_file,
                   data_tmp, data_buf>>
    /\ UNCHANGED cfgSide

\* A regenerate that answers from the cache, as show does, when today's
\* record exists.
RegenerateIfAbsent(p) ==
    /\ p \in Cmd /\ CanStart(p)
    /\ gen_exit' = NoExit
    /\ UNCHANGED pure
    /\ ops' = ops + 1
    /\ shown' = <<>>
    /\ IF schedule_data[today] # None
       THEN /\ reply' = Returned(p, "regenerate", today,
                                  ScheduleReply(today, schedule_data[today]), 0)
            /\ UNCHANGED <<pc, action, today_str>>
       ELSE /\ reply' = NoReply
            /\ pc' = [pc EXCEPT ![p] = "send_message"]
            /\ action' = [action EXCEPT ![p] = "regenerate"]
            /\ today_str' = [today_str EXCEPT ![p] = today]
    /\ UNCHANGED <<today, os_name, schedule_info, attempts, date_str, schedule_data,
                   failed_dates, generation_lock, data_lock, data_file,
                   data_tmp, data_buf>>
    /\ UNCHANGED cfgSide

\* life_command regenerate (lines 488-489): announce (await send_message).
Regenerate(p) ==
    /\ p \in Cmd /\ CanStart(p)
    /\ gen_exit' = NoExit
    /\ UNCHANGED pure
    /\ ops' = ops + 1
    /\ action' = [action EXCEPT ![p] = "regenerate"]
    /\ today_str' = [today_str EXCEPT ![p] = today]
    /\ shown' = <<>>
    /\ pc' = [pc EXCEPT ![p] = "send_message"]
    /\ reply' = NoReply
    /\ UNCHANGED <<today, os_name, schedule_info, attempts, date_str, schedule_data,
                   failed_dates, generation_lock, data_lock, data_file,
                   data_tmp, data_buf>>
    /\ UNCHANGED cfgSide

\* send_message returned: the command enters generate_schedule_with_llm
\* (lines 478, 490).
CommandGenerate(p) ==
    /\ pc[p] = "send_message"
    /\ gen_exit' = NoExit
    /\ UNCHANGED pure
    /\ pc' = [pc EXCEPT ![p] = "gen_ctx"]
    /\ attempts' = [attempts EXCEPT ![p] = @ + 1]
    /\ date_str' = [date_str EXCEPT ![p] = today]
    /\ reply' = NoReply
    /\ UNCHANGED <<today, os_name, action, today_str, schedule_info,
                   schedule_data, failed_dates, generation_lock, data_lock,
                   data_file, data_tmp, data_buf, ops, shown>>
    /\ UNCHANGED cfgSide

\* generate_schedule_with_llm, lines 343-396: the context awaits are over, the
\* prompt is built, and either there is no provider (return None) or
\* provider.text_chat is called.
GenerateCall(p) ==
    /\ pc[p] = "gen_ctx"
    /\ gen_exit' = NoExit
    /\ UNCHANGED pure
    /\ \E provider \in BOOLEAN :
         IF provider
         THEN /\ Suspend(p, "gen_chat")
              /\ UNCHANGED <<schedule_info, date_str, schedule_data, failed_dates,
                             generation_lock, data_lock, data_tmp, data_buf,
                             shown>>
         ELSE AfterGenerate(p, None)
    /\ UNCHANGED <<today, os_name, data_file, ops>>
    /\ UNCHANGED cfgSide

\* A generate_schedule_with_llm that gives up, returning None, when no JSON
\* object is extracted from the completion text.
GenerateResultNoFallback(outcome) ==
    IF outcome = "raise" THEN None ELSE extract_json_from_text(outcome)

\* What generate_schedule_with_llm returns for the outcome of text_chat
\* (lines 396-406, 418-420): the extracted record, the fallback record, or
\* None when the call raised.
GenerateResult(outcome) ==
    IF outcome = "raise" THEN None ELSE RecordOfContent(outcome)

\* A generate_schedule_with_llm whose clean-up exception escapes the finally
\* block and is taken for a failed call.
GenerateValueCleanupEscapes(outcome, cleaned) ==
    IF cleaned = "raise" THEN None ELSE GenerateResult(outcome)

\* What generate_schedule_with_llm returns for the outcome of text_chat and
\* the outcome of the clean-up: an exception of the clean-up is caught inside
\* the finally block (lines 409-416) and the value stands.
GenerateValue(outcome, cleaned) == GenerateResult(outcome)

\* provider.text_chat returned or raised, the finally block's clean-up awaits
\* (lines 407-416) are over, generate_schedule_with_llm returns and the caller
\* goes on.
GenerateReturn(p) ==
    /\ pc[p] = "gen_chat"
    /\ \E outcome \in Contents \cup {"raise"}, cleaned \in CleanupOutcomes :
         /\ gen_exit' = [task |-> p,
                         call |-> IF outcome = "raise" THEN "raised" ELSE "returned",
                         cleanup |-> cleaned]
         /\ AfterGenerate(p, GenerateValue(outcome, cleaned))
    /\ UNCHANGED pure
    /\ UNCHANGED <<today, os_name, data_file, ops>>
    /\ UNCHANGED cfgSide

(* ----------------------------- save_data --------------------------------- *)
\* The handler resumes holding the data lock it queued for before storing its
\* record: it stores, releases, and calls save_data.
StoreLocked(p) ==
    /\ pc[p] = "store_wait" /\ data_lock.holder = p
    /\ gen_exit' = NoExit
    /\ UNCHANGED pure
    /\ StoreAndSave(p, schedule_info[p])
    /\ UNCHANGED <<today, os_name, data_file, ops>>
    /\ UNCHANGED cfgSide

\* save_data resumes holding the data lock and opens data.tmp (line 304).
SaveLocked(p) ==
    /\ pc[p] = "save_wait" /\ data_lock.holder = p
    /\ gen_exit' = NoExit
    /\ UNCHANGED pure
    /\ data_tmp' = PartialData
    /\ data_buf' = [data_buf EXCEPT ![p] = schedule_data]
    /\ Suspend(p, "save_close")
    /\ UNCHANGED <<today, os_name, schedule_info, date_str, schedule_data, failed_dates,
                   generation_lock, data_lock, data_file, ops, shown>>
    /\ UNCHANGED cfgSide

\* f.write (line 305) filled the file object's buffer and the block's exit
\* closed the file, which flushed it: data.tmp is complete.
SaveClosed(p) ==
    /\ pc[p] = "save_close"
    /\ gen_exit' = NoExit
    /\ UNCHANGED pure
    /\ data_tmp' = DataSnapshot(data_buf[p])
    /\ data_buf' = [data_buf EXCEPT ![p] = EmptyStore]
    /\ Suspend(p, "save_replace")
    /\ UNCHANGED <<today, os_name, schedule_info, date_str, schedule_data, failed_dates,
                   generation_lock, data_lock, data_file, ops, shown>>
    /\ UNCHANGED cfgSide

\* save_data lines 307-309 (the os.remove of an existing data.json when
\* os.name is 'nt', then os.replace), the release of the data lock, and the
\* caller's code after save_data.
SaveReplaced(p) ==
    /\ pc[p] = "save_replace"
    /\ gen_exit' = NoExit
    /\ UNCHANGED pure
    /\ data_file' = data_tmp
    /\ data_tmp' = MissingData
    /\ data_lock' = Release(data_lock)
    /\ AfterSave(p)
    /\ UNCHANGED <<today, os_name, schedule_data, failed_dates, data_buf, ops>>
    /\ UNCHANGED cfgSide

(* ---------------------------- time command ------------------------------ *)
\* The reply "请提供时间" (line 502).
NeedTimeReply == <<"need_time">>
\* The reply "时间格式错误" (line 505).
BadFormatReply == <<"bad_format">>
\* The reply "已将每日日程生成时间更新为 ..." (line 512).
TimeSetReply(t) == <<"time_set", t>>

\* The accepted branch of the time command (lines 508-511), up to the first
\* await of save_config.
SetTime(p, new_time) ==
    /\ scheduler' = update_schedule_time(scheduler, new_time)
    /\ config_time' = new_time
    /\ param' = [param EXCEPT ![p] = new_time]
    /\ reply' = NoReply
    /\ action' = [action EXCEPT ![p] = "time"]
    /\ pc' = [pc EXCEPT ![p] = "cfg_open"]

\* A time command that returns early, without save_config, when the time is
\* the configured one.
TimeCommandSkipsSame(p, new_time) ==
    /\ p \in Cmd /\ CanStart(p)
    /\ gen_exit' = NoExit
    /\ UNCHANGED pure
    /\ ops' = ops + 1
    /\ IF new_time = <<>>
       THEN /\ reply' = Returned(p, "time", today, NeedTimeReply, 0)
            /\ UNCHANGED <<scheduler, config_time, pc, action, param>>
       ELSE IF ~MatchesTimePattern(new_time)
       THEN /\ reply' = Returned(p, "time", today, BadFormatReply, 0)
            /\ UNCHANGED <<scheduler, config_time, pc, action, param>>
       ELSE IF new_time = config_time
       THEN /\ reply' = Returned(p, "time", today, TimeSetReply(new_time), 0)
            /\ UNCHANGED <<scheduler, config_time, pc, action, param>>
       ELSE SetTime(p, new_time)
    /\ UNCHANGED <<today, os_name, cfg_file, cfg_tmp, cfg_buf, fh, write_failed>>
    /\ UNCHANGED genSide

\* life_command time (lines 500-511) up to the first await of save_config.
TimeCommand(p, new_time) ==
    /\ p \in Cmd /\ CanStart(p)
    /\ gen_exit' = NoExit
    /\ UNCHANGED pure
    /\ ops' = ops + 1
    /\ IF new_time = <<>>
       THEN /\ reply' = Returned(p, "time", today, NeedTimeReply, 0)
            /\ UNCHANGED <<scheduler, config_time, pc, action, param>>
       ELSE IF ~MatchesTimePattern(new_time)
       THEN /\ reply' = Returned(p, "time", today, BadFormatReply, 0)
            /\ UNCHANGED <<scheduler, config_time, pc, action, param>>
       ELSE SetTime(p, new_time)
    /\ UNCHANGED <<today, os_name, cfg_file, cfg_tmp, cfg_buf, fh, write_failed>>
    /\ UNCHANGED genSide

\* aiofiles.open(temp_path, 'w') returned (line 279): config.tmp exists and is
\* empty (an existing config.tmp is truncated in place); the configuration is
\* serialised and handed to f.write (line 280).
ConfigOpened(p) ==
    /\ pc[p] = "cfg_open"
    /\ gen_exit' = NoExit
    /\ UNCHANGED pure
    /\ cfg_tmp' = PartialCfg
    /\ fh' = [fh EXCEPT ![p] = "tmp"]
    /\ cfg_buf' = [cfg_buf EXCEPT ![p] = config_time]
    /\ pc' = [pc EXCEPT ![p] = "cfg_close"]
    /\ reply' = NoReply
    /\ UNCHANGED <<today, os_name, scheduler, config_time, cfg_file, action,
                   param, write_failed, ops>>
    /\ UNCHANGED genSide

\* f.write filled the file object's buffer and the block's exit closed the
\* file, which flushed it into the file the handle names: config.tmp, or
\* config.json once another handler renamed the file, or an unlinked file.
ConfigClosed(p) ==
    /\ pc[p] = "cfg_close"
    /\ gen_exit' = NoExit
    /\ UNCHANGED pure
    /\ cfg_tmp' = IF fh[p] = "tmp" THEN CfgSnapshot(cfg_buf[p]) ELSE cfg_tmp
    /\ cfg_file' = IF fh[p] = "canon" THEN CfgSnapshot(cfg_buf[p]) ELSE cfg_file
    /\ fh' = [fh EXCEPT ![p] = "closed"]
    /\ cfg_buf' = [cfg_buf EXCEPT ![p] = <<>>]
    /\ pc' = [pc EXCEPT ![p] = "cfg_replace"]
    /\ reply' = NoReply
    /\ UNCHANGED <<today, os_name, scheduler, config_time, action, param,
                   write_failed, ops>>
    /\ UNCHANGED genSide

\* What an open handle names after config.json was removed.
AfterRemove(h) == IF h = "canon" THEN "orphan" ELSE h
\* What an open handle names after config.tmp was renamed over config.json.
AfterRename(h) ==
    IF h = "tmp" THEN "canon" ELSE IF h = "canon" THEN "orphan" ELSE h
\* The run can be one on a host whose os.name is o.
OsCanBe(o) == os_name \in {"any", o}

\* save_config lines 282-286 (the os.remove of an existing config.json when
\* os.name is 'nt', then os.replace, which raises when config.tmp is gone; the
\* exception is logged), and the reply of the time command (line 512).
ConfigReplaced(p) ==
    /\ pc[p] = "cfg_replace"
    /\ gen_exit' = NoExit
    /\ UNCHANGED pure
    /\ write_failed' = (write_failed \/ cfg_tmp.state = "missing")
    /\ IF cfg_tmp.state # "missing"
       THEN /\ cfg_file' = cfg_tmp
            /\ cfg_tmp' = MissingCfg
            /\ fh' = [q \in Procs |-> AfterRename(fh[q])]
            /\ UNCHANGED os_name
       ELSE IF cfg_file.state = "missing"
       THEN UNCHANGED <<cfg_file, cfg_tmp, fh, os_name>>
       ELSE \/ /\ OsCanBe("posix") /\ os_name' = "posix"
               /\ UNCHANGED <<cfg_file, cfg_tmp, fh>>
            \/ /\ OsCanBe("nt") /\ os_name' = "nt"
               /\ cfg_file' = MissingCfg
               /\ fh' = [q \in Procs |-> AfterRemove(fh[q])]
               /\ UNCHANGED cfg_tmp
    /\ pc' = [pc EXCEPT ![p] = "idle"]
    /\ action' = [action EXCEPT ![p] = RestingAction(p)]
    /\ reply' = Returned(p, "time", today, TimeSetReply(param[p]), 0)
    /\ param' = [param EXCEPT ![p] = <<>>]
    /\ UNCHANGED <<today, scheduler, config_time, cfg_buf, ops>>
    /\ UNCHANGED genSide

(* ------------------------- clock, kill, restart -------------------------- *)
\* Midnight passes.
NextDay ==
    /\ today < MaxDay
    /\ gen_exit' = NoExit
    /\ UNCHANGED pure
    /\ today' = today + 1
    /\ reply' = NoReply
    /\ UNCHANGED <<os_name, schedule_data, failed_dates, generation_lock,
                   data_lock, data_file, data_tmp, pc, action, today_str,
                   schedule_info, data_buf, ops, shown, attempts, date_str>>
    /\ UNCHANGED cfgSide

\* The process starts again on the files df and cf: Main.__init__ (lines
\* 245-261); every handler, lock and open file of the old process is gone.
Restart(df, cf) ==
    /\ schedule_data' = load_data(df)
    /\ failed_dates' = {}
    /\ config_time' = load_config(cf)
    /\ scheduler' = StartedScheduler(load_config(cf))
    /\ generation_lock' = FreeLock
    /\ data_lock' = FreeLock
    /\ pc' = [p \in Procs |-> "idle"]
    /\ action' = [p \in Procs |-> RestingAction(p)]
    /\ today_str' = [p \in Procs |-> 0]
    /\ schedule_info' = [p \in Procs |-> None]
    /\ data_buf' = [p \in Procs |-> EmptyStore]
    /\ cfg_buf' = [p \in Procs |-> <<>>]
    /\ fh' = [p \in Procs |-> "closed"]
    /\ param' = [p \in Procs |-> <<>>]
    /\ write_failed' = FALSE
    /\ reply' = NoReply
    /\ gen_exit' = NoExit
    /\ UNCHANGED pure
    /\ shown' = <<>>
    /\ attempts' = [p \in Procs |-> 0]
    /\ date_str' = [p \in Procs |-> 0]

\* The process is killed while every handler is suspended in an await, and
\* started again.
Kill ==
    /\ \E p \in Procs : pc[p] # "idle"
    /\ Restart(data_file, cfg_file)
    /\ UNCHANGED <<today, os_name, data_file, data_tmp, cfg_file, cfg_tmp, ops>>

\* The process is killed inside save_data between os.remove (line 308) and
\* os.replace (line 309), and started again.
KillInDataReplace(p) ==
    /\ pc[p] = "save_replace" /\ data_file.state # "missing"
    /\ OsCanBe("nt") /\ os_name' = "nt"
    /\ data_file' = MissingData
    /\ Restart(MissingData, cfg_file)
    /\ UNCHANGED <<today, data_tmp, cfg_file, cfg_tmp, ops>>

\* The process is killed inside save_config between os.remove (line 283) and
\* os.replace (line 284), and started again.
KillInConfigReplace(p) ==
    /\ pc[p] = "cfg_replace" /\ cfg_file.state # "missing"
    /\ OsCanBe("nt") /\ os_name' = "nt"
    /\ cfg_file' = MissingCfg
    /\ Restart(data_file, MissingCfg)
    /\ UNCHANGED <<today, data_file, data_tmp, cfg_tmp, ops>>

(* --------------------------- specification ------------------------------ *)
Next ==
    \/ \E p \in Lazy : ReservedRequest(p)
    \/ \E p \in Lazy : LazyStart(p)
    \/ \E p \in Lazy : LazyLocked(p)
    \/ \E p \in Cron : CronFire(p)
    \/ \E p \in Cmd : Show(p)
    \/ \E p \in Cmd : Regenerate(p)
    \/ \E p \in Cmd : CommandGenerate(p)
    \/ \E p \in Procs : GenerateCall(p)
    \/ \E p \in Procs : GenerateReturn(p)
    \/ \E p \in Procs : StoreLocked(p)
    \/ \E p \in Procs : SaveLocked(p)
    \/ \E p \in Procs : SaveClosed(p)
    \/ \E p \in Procs : SaveReplaced(p)
    \/ \E p \in Cmd, t \in Params : TimeCommand(p, t)
    \/ \E p \in Cmd : ConfigOpened(p)
    \/ \E p \in Cmd : ConfigClosed(p)
    \/ \E p \in Cmd : ConfigReplaced(p)
    \/ NextDay
    \/ Kill
    \/ \E p \in Procs : KillInDataReplace(p)
    \/ \E p \in Cmd : KillInConfigReplace(p)

Spec == Init /\ [][Next]_vars

\* The steps that resume the handler of task p after an await of
\* on_llm_request, daily_schedule_task, or life_command show or regenerate.
Continue(p) ==
    \/ LazyLocked(p)
    \/ CommandGenerate(p)
    \/ GenerateCall(p)
    \/ GenerateReturn(p)
    \/ StoreLocked(p)
    \/ SaveLocked(p)
    \/ SaveClosed(p)
    \/ SaveReplaced(p)

\* The handlers that take the locks, in a process that runs on: cron fires,
\* lazy requests, show and regenerate commands, and their resumptions.
NextLive ==
    \/ \E p \in Lazy : LazyStart(p)
    \/ \E p \in Cron : CronFire(p)
    \/ \E p \in Cmd : Show(p)
    \/ \E p \in Cmd : Regenerate(p)
    \/ \E p \in Procs : Continue(p)

\* The event loop resumes every task whose await is over, and every
\* generator, context and file call returns or raises in the end.
SpecLive == Init /\ [][NextLive]_vars /\ \A p \in Procs : WF_vars(Continue(p))

(* --------------------------- history context ---------------------------- *)
\* One entry of history_schedules (line 340), for the record of day d.
HistoryLine(d) == <<"line", d>>
\* The text used when there is no entry (line 341).
NoHistory == <<"no_history">>

\* A history loop that starts at today instead of yesterday.
history_from_today(store, t, n, i) ==
    [k \in 1..Cardinality({j \in 0..n : t - j \in store}) |->
        HistoryLine(CHOOSE d \in store :
            /\ d \in (t - n)..t
            /\ Cardinality({c \in store : c \in (d + 1)..t}) = k - 1)]

\* The loop of lines 336-340 from its i-th round on: for i, i+1, .., n the
\* day t - i gets an entry when it is a key of the store.
RECURSIVE history_schedules(_, _, _, _)
history_schedules(store, t, n, i) ==
    IF i > n THEN <<>>
    ELSE (IF t - i \in store THEN <<HistoryLine(t - i)>> ELSE <<>>)
            \o history_schedules(store, t, n, i + 1)

\* history_schedules_str (line 341): the entries joined, or the placeholder.
history_schedules_str(lines) == IF lines # <<>> THEN lines ELSE <<NoHistory>>

HistDaySet == 1..HistDays
\* A store (its keys), a today and a reference_history_days to assemble with.
InitHistory ==
    /\ Installed
    /\ hist \in [store : SUBSET HistDaySet, today : HistDaySet,
                  days : 0..MaxWindow, lines : {<<>>}, text : {<<>>},
                  built : {FALSE}]
    /\ scan = ScanIdle /\ scheds = SchedIdle

\* generate_schedule_with_llm lines 336-341 on the store and the day given.
BuildHistory ==
    /\ ~hist.built
    /\ hist' = [hist EXCEPT
                  !.lines = history_schedules(hist.store, hist.today, hist.days, 1),
                  !.text = history_schedules_str(
                              history_schedules(hist.store, hist.today, hist.days, 1)),
                  !.built = TRUE]
    /\ UNCHANGED <<program, scan, scheds>>

NextHistory == BuildHistory
SpecHistory == InitHistory /\ [][NextHistory]_vars

(* ---------------------------- extraction scan --------------------------- *)
\* The characters the scanned texts are written in.  None of them is white
\* space or a backtick, so text.strip() and the three re.sub calls of lines
\* 112-116 leave such a text as it is, and json.loads meets no white space.
LBrace == "{"
RBrace == "}"
Quote == "\""
Backslash == "\\"
Colon == ":"
Chars == {LBrace, RBrace, Quote, Backslash, Colon}
Texts == UNION {[1..n -> Chars] : n \in 0..MaxText}

\* The outcome of decoding a JSON value that starts at some index of a text:
\* whether there is one, the value, and the index after it.
NoParse == [ok |-> FALSE, val |-> <<>>, next |-> 0]
Parsed(v, n) == [ok |-> TRUE, val |-> v, next |-> n]
JsonString(chars) == <<"string", chars>>
EmptyObject == <<"object">>
JsonObject(key, val) == <<"object", key, val>>

\* json's string decoder from index i, after the opening quote: up to the
\* closing quote, a backslash being valid before a quote or a backslash only
\* (of the characters here).
RECURSIVE ScanString(_, _, _)
ScanString(s, i, acc) ==
    IF i > Len(s) THEN NoParse
    ELSE IF s[i] = Quote THEN Parsed(JsonString(acc), i + 1)
    ELSE IF s[i] = Backslash
         THEN IF i + 1 <= Len(s) /\ s[i + 1] \in {Quote, Backslash}
              THEN ScanString(s, i + 2, Append(acc, s[i + 1]))
              ELSE NoParse
    ELSE ScanString(s, i + 1, Append(acc, s[i]))

\* json's value decoder at index i: a string or an object (no other JSON
\* value can be written in these characters); an object is {} or one
\* "key":value pair, there being no comma to write a second pair with.
RECURSIVE ParseValue(_, _)
RECURSIVE ParseObject(_, _)
ParseValue(s, i) ==
    IF i > Len(s) THEN NoParse
    ELSE IF s[i] = Quote THEN ScanString(s, i + 1, <<>>)
    ELSE IF s[i] = LBrace THEN ParseObject(s, i)
    ELSE NoParse
ParseObject(s, i) ==
    IF i + 1 > Len(s) THEN NoParse
    ELSE IF s[i + 1] = RBrace THEN Parsed(EmptyObject, i + 2)
    ELSE IF s[i + 1] # Quote THEN NoParse
    ELSE LET key == ScanString(s, i + 2, <<>>) IN
         IF ~key.ok \/ key.next > Len(s) \/ s[key.next] # Colon THEN NoParse
         ELSE LET val == ParseValue(s, key.next + 1) IN
              IF ~val.ok \/ val.next > Len(s) \/ s[val.next] # RBrace
              THEN NoParse
              ELSE Parsed(JsonObject(key.val[2], val.val), val.next + 1)

\* json.loads(json_str): the value, when json_str is one JSON value and
\* nothing more; JSONDecodeError otherwise.
json_loads(json_str) ==
    LET v == ParseValue(json_str, 1) IN
    IF v.ok /\ v.next = Len(json_str) + 1 THEN v ELSE NoParse

\* text.find('{'), counting from 1, and 0 when there is none.
find_brace(text) ==
    IF \E i \in 1..Len(text) : text[i] = LBrace
    THEN CHOOSE i \in 1..Len(text) :
            /\ text[i] = LBrace
            /\ \A j \in 1..(i - 1) : text[j] # LBrace
    ELSE 0

\* The loop of lines 126-146 from index i on, with the values its variables
\* have there; the value returned at line 144, or None of line 147.
RECURSIVE scan_braces(_, _, _, _, _, _)
scan_braces(text, start_index, i, brace_level, in_string, escape) ==
    IF i > Len(text) THEN None
    ELSE IF in_string
    THEN IF escape
         THEN scan_braces(text, start_index, i + 1, brace_level, TRUE, FALSE)
         ELSE IF text[i] = Backslash
         THEN scan_braces(text, start_index, i + 1, brace_level, TRUE, TRUE)
         ELSE IF text[i] = Quote
         THEN scan_braces(text, start_index, i + 1, brace_level, FALSE, FALSE)
         ELSE scan_braces(text, start_index, i + 1, brace_level, TRUE, FALSE)
    ELSE IF text[i] = Quote
         THEN scan_braces(text, start_index, i + 1, brace_level, TRUE, escape)
         ELSE IF text[i] = LBrace
         THEN scan_braces(text, start_index, i + 1, brace_level + 1, FALSE, escape)
         ELSE IF text[i] = RBrace
         THEN IF brace_level - 1 = 0
                 /\ json_loads(SubSeq(text, start_index, i)).ok
              THEN json_loads(SubSeq(text, start_index, i)).val
              ELSE scan_braces(text, start_index, i + 1, brace_level - 1,
                               FALSE, escape)
         ELSE scan_braces(text, start_index, i + 1, brace_level, FALSE, escape)

\* extract_json_from_text on a text of these characters (lines 118-147).
extract_json_scan(text) ==
    IF find_brace(text) = 0 THEN None
    ELSE scan_braces(text, find_brace(text), find_brace(text), 0, FALSE, FALSE)

\* A text to extract from.
InitExtract ==
    /\ Installed
    /\ scan \in [text : Texts, result : {<<>>}, scanned : {FALSE}]
    /\ hist = HistIdle /\ scheds = SchedIdle

\* extract_json_from_text(text).
Extract ==
    /\ ~scan.scanned
    /\ scan' = [scan EXCEPT !.result = extract_json_scan(scan.text),
                            !.scanned = TRUE]
    /\ UNCHANGED <<program, hist, scheds>>

NextExtract == Extract
SpecExtract == InitExtract /\ [][NextExtract]_vars

(* ------------------------------ schedulers ------------------------------ *)
\* map(int, schedule_time.split(":")) unpacks into hour and minute: two
\* parts, each one int() takes (of the characters of the modelled times).
ParsesAsInts(t) ==
    /\ SplitsInTwo(t)
    /\ AllDigits(HourPart(t)) /\ AllDigits(MinutePart(t))

\* core/schedule.py: a LifeScheduler after __init__ and start().
core_start(t) ==
    IF ParsesAsInts(t) /\ CronAccepts(t)
    THEN [schedule_time |-> t, job |-> TriggerOf(t), running |-> TRUE]
    ELSE [schedule_time |-> t, job |-> NoJob, running |-> FALSE]

\* core/schedule.py: LifeScheduler.update_schedule_time(new_time).  Line 52
\* takes hour and minute from self.schedule_time, before line 53 replaces it.
core_update_schedule_time(s, new_time) ==
    IF new_time = s.schedule_time THEN s
    ELSE IF ~ParsesAsInts(s.schedule_time) THEN s
    ELSE IF s.job # NoJob /\ CronAccepts(s.schedule_time)
         THEN [s EXCEPT !.schedule_time = new_time,
                        !.job = TriggerOf(s.schedule_time)]
         ELSE [s EXCEPT !.schedule_time = new_time]

\* A scheduler of each file, constructed with a schedule_time and started.
InitSched ==
    /\ Installed
    /\ \E t \in Params :
          scheds = [main |-> StartedScheduler(t), core |-> core_start(t),
                    updates |-> 0]
    /\ hist = HistIdle /\ scan = ScanIdle

\* update_schedule_time(t) on the LifeScheduler of main.py.
UpdateMain(t) ==
    /\ scheds.updates < MaxUpdates
    /\ scheds' = [scheds EXCEPT !.main = update_schedule_time(scheds.main, t),
                                !.updates = @ + 1]
    /\ UNCHANGED <<program, hist, scan>>

\* update_schedule_time(t) on the LifeScheduler of core/schedule.py.
UpdateCore(t) ==
    /\ scheds.updates < MaxUpdates
    /\ scheds' = [scheds EXCEPT !.core = core_update_schedule_time(scheds.core, t),
                                !.updates = @ + 1]
    /\ UNCHANGED <<program, hist, scan>>

NextSched ==
    \/ \E t \in Params : UpdateMain(t)
    \/ \E t \in Params : UpdateCore(t)
SpecSched == InitSched /\ [][NextSched]_vars

(* ------------------------------ properties ------------------------------ *)
\* The step kills the process and starts it again.
ProcessKilled ==
    \/ Kill
    \/ \E p \in Procs : KillInDataReplace(p)
    \/ \E p \in Cmd : KillInConfigReplace(p)

\* Handler p is running and has called provider.text_chat.
Called(p) ==
    pc[p] \in {"gen_chat", "store_wait", "save_wait", "save_close", "save_replace"}
\* Handler p is inside generate_schedule_with_llm.
Generating(p) == pc[p] \in {"gen_ctx", "gen_chat"}
\* Handler p stores its record in this step.
Stores(p) ==
    /\ pc[p] \in {"gen_chat", "store_wait"}
    /\ pc'[p] \in {"save_wait", "save_close"}
\* A time that is a 24-hour HH:MM time: hour 00-23, minute 00-59.
ValidTime(t) ==
    /\ MatchesTimePattern(t)
    /\ IntOf(SubSeq(t, 1, 2)) \in 0..23
    /\ IntOf(SubSeq(t, 4, 5)) \in 0..59

\* C1: at-most-once generation.  A cron fire and a lazy trigger racing for the
\* same day never both invoke the generator: at no time are a cron handler and
\* a lazy handler for one day both running with a text_chat call made (and so
\* never do both write a record for that day).
C1_AtMostOnceGeneration ==
    \A p \in Cron, q \in Lazy :
        (today_str[p] # 0 /\ today_str[p] = today_str[q])
            => ~(Called(p) /\ Called(q))

\* C2: failure memoization.  A lazy handler is inside the generator only for a
\* day that is not in failed_dates: once a day is marked failed, no lazy
\* trigger for it, started later or already waiting for the generation lock,
\* calls the generator.
C2_FailureMemoization ==
    \A p \in Lazy : Generating(p) => today_str[p] \notin failed_dates

\* A lazy trigger returned without a generator call for a day marked failed.
C2_Witness ==
    /\ reply.task \in Lazy
    /\ reply.calls = 0
    /\ reply.day \in failed_dates
    /\ schedule_data[reply.day] = None

\* C3: no silent overwrite.  Within a process lifetime, a step that changes the
\* record a day already has is the store of a regenerate command for that day;
\* no lazy trigger, cron fire or show replaces an existing record.
C3_NoSilentOverwrite ==
    [][ProcessKilled \/
       \A d \in Days :
          (schedule_data[d] # None /\ schedule_data'[d] # schedule_data[d])
             => \E p \in Cmd : /\ action[p] = "regenerate"
                               /\ today_str[p] = d
                               /\ Stores(p)]_vars

\* C4: regenerate forces a fresh generation.  A regenerate command that
\* returns has called the generator exactly once, whatever the cache and
\* failed_dates held; its store step makes the generated record today's
\* record and its reply shows that record; when the generator yields none it
\* reports failure and the step leaves the store as it was.
C4_RegenerateForcesGeneration ==
    [][/\ reply'.action = "regenerate" => reply'.calls = 1
       /\ \A p \in Cmd :
            (action[p] = "regenerate" /\ Stores(p))
               => /\ schedule_info'[p] # None
                  /\ schedule_data'[today_str[p]] = schedule_info'[p]
       /\ (reply'.action = "regenerate" /\ reply'.result = GenFailedReply)
            => schedule_data' = schedule_data
       /\ (reply'.action = "regenerate" /\ reply'.result # GenFailedReply)
            => /\ schedule_info[reply'.task] # None
               /\ reply'.result =
                     ScheduleReply(reply'.day, schedule_info[reply'.task])]_vars

\* A regenerate on a day marked failed called the generator once and returned
\* the record that is now the day's record.
C4_Witness ==
    /\ reply.action = "regenerate"
    /\ reply.calls = 1
    /\ reply.day \in failed_dates
    /\ reply.result = ScheduleReply(reply.day, schedule_data[reply.day])

\* C5: show on a miss generates before replying.  The store step of a show
\* makes the generated record today's record; a show that generated and
\* returns a record returns the generated one, and the data.json its save_data
\* just put in place holds that record for the day; a show whose generator
\* yielded none reports failure and leaves the store as it was.
C5_ShowGeneratesOnMiss ==
    [][/\ \A p \in Cmd :
            (action[p] = "show" /\ Stores(p))
               => schedule_data'[today_str[p]] = schedule_info'[p]
       /\ (reply'.action = "show" /\ reply'.calls = 1)
            => IF reply'.result = GenFailedReply
               THEN schedule_data' = schedule_data
               ELSE /\ reply'.result =
                         ScheduleReply(reply'.day, schedule_info[reply'.task])
                    /\ data_file'.state = "ok"
                    /\ data_file'.content[reply'.day] =
                         schedule_info[reply'.task]]_vars

\* C6: idempotent cache read.  After a show answered from the cache, and as
\* long as no regenerate runs, the day's record stays the one that show
\* returned, so that a second show returns the identical record.
C6_IdempotentCacheRead ==
    shown # <<>> => schedule_data[shown[1]] = shown[2]

\* C7 as stated: a time command with the configured time reschedules nothing,
\* leaves scheduler and configuration as they are and does not run
\* save_config.
C7_RescheduleNoOp ==
    [][\A p \in Cmd :
          TimeCommand(p, config_time)
             => /\ scheduler' = scheduler
                /\ config_time' = config_time
                /\ pc'[p] = "idle"
                /\ cfg_file' = cfg_file /\ cfg_tmp' = cfg_tmp]_vars

\* C7, amended: a time command with the configured time reschedules nothing
\* and leaves the scheduler and the in-memory configuration as they are, and
\* it does go on to save_config, which writes config.json again.
C7_RescheduleNoOpButSaves ==
    [][\A p \in Cmd :
          TimeCommand(p, config_time)
             => /\ scheduler' = scheduler
                /\ config_time' = config_time
                /\ pc'[p] = "cfg_open"
                /\ param'[p] = config_time]_vars

\* The first time command of a fresh installation, given the default time,
\* has entered save_config: no config.json exists yet, and the save creates it.
C7_Witness ==
    \E p \in Cmd :
        /\ pc[p] = "cfg_open"
        /\ param[p] = config_time
        /\ config_time = DefaultTime
        /\ scheduler = StartedScheduler(DefaultTime)
        /\ \A q \in Cmd \ {p} : pc[q] = "idle"
        /\ cfg_file = MissingCfg /\ cfg_tmp = MissingCfg

\* C8: time validation.  A time command whose parameter is not a valid
\* 24-hour time returns at once and leaves the configuration, the scheduler
\* and the configuration files as they are.
C8_TimeValidation ==
    [][\A p \in Cmd, t \in Params :
          (TimeCommand(p, t) /\ ~ValidTime(t))
             => /\ config_time' = config_time
                /\ scheduler' = scheduler
                /\ pc'[p] = "idle"
                /\ cfg_file' = cfg_file /\ cfg_tmp' = cfg_tmp]_vars

\* C9: atomic persistence.  A kill of the process leaves a data.json and a
\* config.json that existed before the kill in place and complete.
C9_AtomicPersistence ==
    [][ProcessKilled
          => /\ data_file.state = "ok" => data_file'.state = "ok"
             /\ cfg_file.state = "ok" => cfg_file'.state = "ok"]_vars

\* C10: monotonic presence.  Within a process lifetime no step takes away a
\* day's record.
C10_MonotonicPresence ==
    [][ProcessKilled \/
       \A d \in Days : schedule_data[d] # None => schedule_data'[d] # None]_vars

\* A regenerate failed on a day that has a record, and the record is there.
C10_Witness ==
    /\ reply.action = "regenerate"
    /\ reply.result = GenFailedReply
    /\ schedule_data[reply.day] # None

\* C11: degraded fallback.  When text_chat returns a text from which no JSON
\* object is extracted, generate_schedule_with_llm returns the record whose
\* outfit is the placeholder and whose schedule is the whole text; the caller
\* goes on to store it as it stores any record, and failed_dates is untouched.
C11_DegradedFallback ==
    [][\A p \in Procs, c \in Contents :
          (/\ extract_json_from_text(c) = None
           /\ pc[p] = "gen_chat"
           /\ AfterGenerate(p, GenerateResult(c)))
             => /\ schedule_info'[p] = FallbackRecord(c)
                /\ FallbackRecord(c)[2] = c
                /\ failed_dates' = failed_dates
                /\ \/ pc'[p] = "store_wait"
                   \/ /\ Stores(p)
                      /\ schedule_data'[today_str[p]] = FallbackRecord(c)]_vars

\* A day holds the degraded record, on disk too, and is not marked failed.
C11_Witness ==
    \E d \in Days :
        /\ schedule_data[d] = FallbackRecord("no_json")
        /\ d \notin failed_dates
        /\ data_file.state = "ok"
        /\ data_file.content[d] = FallbackRecord("no_json")

\* C14: serialized generation.  Every cron or lazy handler that is inside
\* generate_schedule_with_llm holds the generation lock, so that at most one
\* of them is inside it at a time.
C14_SerializedGeneration ==
    \A p \in Lazy \cup Cron : Generating(p) => generation_lock.holder = p

\* C15: failure marks the day.  When a cron or lazy handler returns out of a
\* generation that produced no record, its day is in failed_dates, and the
\* step changes neither the store nor the data files.
C15_FailureMarksDay ==
    [][\A p \in Lazy \cup Cron :
          (Generating(p) /\ pc'[p] = "idle" /\ ~ProcessKilled)
             => /\ today_str[p] \in failed_dates'
                /\ schedule_data' = schedule_data
                /\ data_file' = data_file /\ data_tmp' = data_tmp]_vars

\* C16: failed set cleared by success.  No day is both in the store and in
\* failed_dates.
C16_FailedClearedBySuccess ==
    \A d \in Days : ~(schedule_data[d] # None /\ d \in failed_dates)

\* C18: failed setup or reschedule leaves the prior schedule in effect.  The
\* recorded schedule time, in the scheduler and in the configuration, is the
\* time of the job's trigger whenever there is a job, so that the no-op test
\* of update_schedule_time compares with the schedule in effect.
C18_FailedRescheduleKeepsPrior ==
    /\ scheduler.schedule_time = config_time
    /\ scheduler.job # NoJob
         => /\ SplitsInTwo(scheduler.schedule_time)
            /\ CronAccepts(scheduler.schedule_time)
            /\ scheduler.job = TriggerOf(scheduler.schedule_time)

\* C19: session cleanup always follows the call.  Every text_chat call that
\* ends, by returning or by raising, ends with one clean-up attempt for the
\* reserved session before generate_schedule_with_llm returns; and whether
\* the clean-up raised or not, a call that returned gives its caller a record
\* to store and a call that raised gives None, the caller returning with the
\* store as it was.
C19_CleanupFollowsCall ==
    [][\A p \in Procs :
          (pc[p] = "gen_chat" /\ pc'[p] # "gen_chat" /\ ~ProcessKilled)
             => /\ gen_exit'.task = p
                /\ gen_exit'.cleanup \in CleanupOutcomes
                /\ IF gen_exit'.call = "returned"
                   THEN /\ schedule_info'[p] # None
                        /\ pc'[p] \in {"store_wait", "save_wait", "save_close"}
                   ELSE /\ gen_exit'.call = "raised"
                        /\ pc'[p] = "idle"
                        /\ schedule_data' = schedule_data]_vars

\* A text_chat call returned, its clean-up raised, and the caller has the
\* record and goes on to store it.
C19_Witness ==
    \E p \in Procs :
        /\ gen_exit = [task |-> p, call |-> "returned", cleanup |-> "raise"]
        /\ schedule_info[p] # None
        /\ pc[p] \in {"store_wait", "save_wait", "save_close"}

\* C20: no recursion into generation.  A request of the reserved generation
\* session takes no lock, starts no handler and no generation, leaves the
\* store and failed_dates as they are and gets no injection.
C20_NoRecursion ==
    [][\A p \in Lazy :
          ReservedRequest(p)
             => /\ generation_lock' = generation_lock
                /\ pc' = pc
                /\ attempts' = attempts
                /\ schedule_data' = schedule_data
                /\ failed_dates' = failed_dates
                /\ reply'.result = NoResult]_vars

\* A request of the reserved session returned while a text_chat call of a
\* generation is in progress and today has a record that another request
\* would be given.
C20_Witness ==
    /\ reply.action = "reserved"
    /\ reply.result = NoResult
    /\ schedule_data[today] # None
    /\ \E q \in Procs : pc[q] = "gen_chat"

\* The days of the history window that are keys of the store.
WindowDays == {d \in hist.store : d \in (hist.today - hist.days)..(hist.today - 1)}

\* C12: history window.  The assembled history holds exactly one entry for
\* each day of today-1 .. today-reference_history_days that the store has a
\* record for and no other entry, and the placeholder is the text exactly
\* when there is no such day.
C12_HistoryWindow ==
    hist.built
       => /\ Len(hist.lines) = Cardinality(WindowDays)
          /\ \A d \in WindowDays :
                Cardinality({i \in 1..Len(hist.lines) :
                                hist.lines[i] = HistoryLine(d)}) = 1
          /\ \A i \in 1..Len(hist.lines) :
                \E d \in WindowDays : hist.lines[i] = HistoryLine(d)
          /\ (hist.text = <<NoHistory>>) <=> (WindowDays = {})
          /\ WindowDays # {} => hist.text = hist.lines

\* With a window of 3 days and one earlier day in the store, the history has
\* one entry.
C12_Witness ==
    /\ hist.built
    /\ hist.days = 3
    /\ Cardinality(WindowDays) = 1
    /\ Len(hist.lines) = 1
    /\ hist.text = hist.lines

\* The balanced spans of a text from index i on, in the order they close:
\* each starts at a brace met at depth 0 outside a string and ends where the
\* depth is 0 again; a closing brace met at depth 0 belongs to no span.
RECURSIVE BalancedSpans(_, _, _, _, _, _)
BalancedSpans(text, opened, i, depth, in_string, escape) ==
    IF i > Len(text) THEN <<>>
    ELSE IF in_string
    THEN BalancedSpans(text, opened, i + 1, depth,
                       escape \/ text[i] # Quote,
                       ~escape /\ text[i] = Backslash)
    ELSE IF text[i] = Quote
         THEN BalancedSpans(text, opened, i + 1, depth, TRUE, FALSE)
         ELSE IF text[i] = LBrace
         THEN BalancedSpans(text, IF depth = 0 THEN i ELSE opened, i + 1,
                            depth + 1, FALSE, FALSE)
         ELSE IF text[i] = RBrace /\ depth = 1
         THEN <<SubSeq(text, opened, i)>>
                 \o BalancedSpans(text, opened, i + 1, 0, FALSE, FALSE)
         ELSE IF text[i] = RBrace /\ depth > 1
         THEN BalancedSpans(text, opened, i + 1, depth - 1, FALSE, FALSE)
         ELSE BalancedSpans(text, opened, i + 1, depth, FALSE, FALSE)
\* The scan is from the first brace of the text.
SpansOf(text) ==
    IF find_brace(text) = 0 THEN <<>>
    ELSE BalancedSpans(text, 0, find_brace(text), 0, FALSE, FALSE)
\* The value of the first span that is a JSON object, None when there is none.
FirstObject(spans) ==
    IF \E k \in 1..Len(spans) : json_loads(spans[k]).ok
    THEN json_loads(spans[CHOOSE k \in 1..Len(spans) :
                             /\ json_loads(spans[k]).ok
                             /\ \A j \in 1..(k - 1) : ~json_loads(spans[j]).ok]).val
    ELSE None

\* C13: extraction scan.  extract_json_from_text returns the object of the
\* first balanced span of the text that parses as one, also when an earlier
\* balanced span fails to parse, and None only when no balanced span parses.
C13_ExtractionScan ==
    scan.scanned => scan.result = FirstObject(SpansOf(scan.text))

\* The update the claim is about: a time cron can fire at, other than the
\* scheduler's current one, given to a scheduler whose job is registered.
TakesEffectOn(s, t) ==
    /\ SplitsInTwo(t) /\ CronAccepts(t)
    /\ t # s.schedule_time
    /\ s.job # NoJob
Rescheduled(old, new, t) ==
    /\ new.job = TriggerOf(t)
    /\ new.schedule_time = t
    /\ new.running = old.running /\ new.running

\* C17: reschedule takes effect.  update_schedule_time(t), with t not the
\* current time and a job registered, leaves the job firing at t's hour and
\* minute and schedule_time equal to t, the scheduler running as before; so
\* does every further such update.  For the LifeScheduler of either file.
C17_RescheduleTakesEffect ==
    [][\A t \in Params :
          /\ UpdateMain(t) /\ TakesEffectOn(scheds.main, t)
                => Rescheduled(scheds.main, scheds'.main, t)
          /\ UpdateCore(t) /\ TakesEffectOn(scheds.core, t)
                => Rescheduled(scheds.core, scheds'.core, t)]_vars

\* C21: history order.  The entries of the assembled history are in
\* chronological order, the oldest day of the window first and yesterday last.
C21_HistoryOrder ==
    hist.built
       => \A i, j \in 1..Len(hist.lines) :
             i < j => hist.lines[i][2] < hist.lines[j][2]

\* No handler is running.
Quiescent == \A p \in Procs : pc[p] = "idle"

\* C22: persisted after every mutation.  Whenever no operation is in progress
\* and no write has failed, data.json holds the in-memory store and
\* config.json holds the in-memory configuration.
C22_PersistedAfterMutation ==
    Quiescent /\ ~write_failed
       => /\ load_data(data_file) = schedule_data
          /\ load_config(cfg_file) = config_time

\* A record was stored on each day, a time was set, and every handler has
\* returned.
C22_Witness ==
    /\ Quiescent /\ ~write_failed
    /\ \A d \in Days : schedule_data[d] # None
    /\ data_file = DataSnapshot(schedule_data)
    /\ config_time # DefaultTime
    /\ cfg_file = CfgSnapshot(config_time)

\* Task p is in the queue of the lock.
Queued(lock, p) == \E i \in 1..Len(lock.waiters) : lock.waiters[i] = p
\* Task p is suspended until a lock it does not hold yet comes to it.
WaitsOnLock(p) ==
    \/ pc[p] = "gen_wait" /\ generation_lock.holder # p
    \/ pc[p] \in {"store_wait", "save_wait"} /\ data_lock.holder # p
\* The locks are taken in one order, never twice by one task, and a handler
\* that returned holds and awaits none; some pending task can always go on.
LockDiscipline ==
    /\ \A p \in Procs :
          /\ data_lock.holder = p
                => pc[p] # "gen_wait" /\ ~Queued(generation_lock, p)
          /\ ~(generation_lock.holder = p /\ Queued(generation_lock, p))
          /\ ~(data_lock.holder = p /\ Queued(data_lock, p))
          /\ pc[p] = "idle"
                => /\ generation_lock.holder # p /\ ~Queued(generation_lock, p)
                   /\ data_lock.holder # p /\ ~Queued(data_lock, p)
    /\ ~Quiescent => \E p \in Procs : pc[p] # "idle" /\ ~WaitsOnLock(p)

\* C23: deadlock freedom and lock release.  The data lock is taken alone or
\* under the generation lock, never the other way round and never by its
\* holder; a handler that returned holds no lock; never do all pending
\* handlers wait on a lock; and every handler that started returns.
C23_DeadlockFreedom ==
    /\ []LockDiscipline
    /\ \A p \in Procs : (pc[p] # "idle") ~> (pc[p] = "idle")

\* A lazy request holds the generation lock and queues for the data lock that
\* the cron task's save_data holds, while the other lazy request queues for
\* the generation lock.
C23_Witness ==
    /\ generation_lock.holder = "l1" /\ Queued(generation_lock, "l2")
    /\ data_lock.holder = "cron" /\ Queued(data_lock, "l1")

\* C24: day-key consistency across midnight.  The record that
\* generate_schedule_with_llm hands to a handler, which the handler stores
\* under its day key today_str, was generated from a prompt built for that
\* day.
C24_DayKeyConsistency ==
    [][\A p \in Procs :
          pc[p] = "gen_chat" /\ schedule_info'[p] # None
             => date_str[p] = today_str[p]]_vars

\* C25: concurrent configuration writes.  Whatever time commands overlap,
\* config.json is never a file still being written, and once every time
\* command has returned it holds the in-memory configuration.
C25_ConcurrentConfigWrites ==
    /\ cfg_file.state # "partial"
    /\ (\A p \in Cmd : pc[p] \notin {"cfg_open", "cfg_close", "cfg_replace"})
          => load_config(cfg_file) = config_time

=============================================================================
